---- MODULE Spec2Model ----
(***************************************************************************)
(* A model of the influxdb-rust client: the client identity and its basic  *)
(* parameters, the read and write query builders, query() and json_query() *)
(* (request routing, response classification) and                          *)
(* DatabaseQueryResult::deserialize_next.                                  *)
(*                                                                         *)
(* Text that the code inspects (statements, URLs, rendered queries) is a   *)
(* sequence of one-character strings; a response body is a sequence of     *)
(* bytes (0..255).  Literals of the code (parameter keys, error messages)  *)
(* are atomic strings.                                                     *)
(***************************************************************************)
EXTENDS Integers, Sequences, FiniteSets, TLC

VARIABLES
    client,       \* the InfluxDbClient value the caller holds
    clientAlive,  \* FALSE once the client was moved into a conversion
    q,            \* the InfluxDbQuery the caller is building
    pc,           \* "idle", awaiting a response in "query" / "json_query", or "panicked"
    call,         \* the steps of the current or last query() / json_query() call,
                  \* with the request while it is in flight
    ret,          \* what the last call returned
    results,      \* DatabaseQueryResult.results of the value the caller holds
    resultAlive,  \* whether the caller holds a DatabaseQueryResult
    consumed      \* the entries deserialize_next took out of it, in order

vars == <<client, clientAlive, q, pc, call, ret, results, resultAlive, consumed>>

-----------------------------------------------------------------------------
(* Bounds of the model.                                                    *)

MaxStatements == 2
MaxFields == 1
MaxTags == 1

-----------------------------------------------------------------------------
(* Text: str::contains, [String]::join, String + String.                   *)

\* s[i..i+Len(pat)-1] = pat
MatchesAt(s, pat, i) ==
    /\ i + Len(pat) - 1 <= Len(s)
    /\ \A k \in 1..Len(pat) : s[i + k - 1] = pat[k]

\* str::contains(pat): pat occurs at some position of s
Contains(s, pat) ==
    \E i \in 1..(Len(s) + 1) : MatchesAt(s, pat, i)

RECURSIVE Join(_, _)
\* [String]::join(sep): the elements, with sep between consecutive ones
Join(strs, sep) ==
    IF Len(strs) = 0 THEN <<>>
    ELSE IF Len(strs) = 1 THEN strs[1]
    ELSE strs[1] \o sep \o Join(Tail(strs), sep)

SELECT == <<"S", "E", "L", "E", "C", "T">>
SHOW == <<"S", "H", "O", "W">>
DROP == <<"D", "R", "O", "P">>

\* the statements a caller passes to the read builder
Statements ==
    { SELECT,
      DROP,
      <<"s", "h", "o", "w">>,
      <<"x">> \o SHOW }

-----------------------------------------------------------------------------
(* The client (client/mod.rs).                                             *)

None == [some |-> FALSE, username |-> <<>>, password |-> <<>>]

\* Some(InfluxDbAuthentication { username, password })
Some(username, password) ==
    [some |-> TRUE, username |-> username, password |-> password]

GoodUrl == <<"h", "t", "t", "p", ":", "/", "/", "h">>
NoSchemeUrl == <<"h", "/", "d", "b">>

Urls == {GoodUrl, NoSchemeUrl}
Databases == { <<"d", "1">>, <<"d", "2">> }
Credentials == { << <<"u", "1">>, <<"p", "1">> >>, << <<"u", "2">>, <<"p", "2">> >> }

\* InfluxDbClient::new
InfluxDbClient_new(url, database) ==
    [url |-> url, database |-> database, auth |-> None]

\* InfluxDbClient::with_auth
with_auth(self, username, password) ==
    [self EXCEPT !.auth = Some(username, password)]

database_url(self) == self.url

\* impl Into<Vec<(String, String)>> for InfluxDbClient
IntoOwned(self) ==
    LET vec0 == <<>>
        vec1 == Append(vec0, <<"db", self.database>>)
    IN  IF self.auth.some
        THEN Append(Append(vec1, <<"u", self.auth.username>>),
                    <<"p", self.auth.password>>)
        ELSE vec1

IntoBorrowedNoAuth(self) ==
    Append(<<>>, <<"db", self.database>>)

\* impl Into<Vec<(String, String)>> for &InfluxDbClient
IntoBorrowed(self) ==
    LET vec0 == <<>>
        vec1 == Append(vec0, <<"db", self.database>>)
    IN  IF self.auth.some
        THEN Append(Append(vec1, <<"u", self.auth.username>>),
                    <<"p", self.auth.password>>)
        ELSE vec1

-----------------------------------------------------------------------------
(* Queries (query/mod.rs, query/read_query.rs, query/write_query.rs).      *)

Digits == <<"0", "1", "2", "3", "4", "5", "6", "7", "8", "9">>

RECURSIVE Decimal(_)
\* the decimal rendering of a non-negative integer ("{}" of a usize / i64)
Decimal(n) ==
    IF n < 10 THEN <<Digits[n + 1]>>
    ELSE Decimal(n \div 10) \o <<Digits[(n % 10) + 1]>>

NOW == [unit |-> "NOW", ts |-> 0]
SECONDS(ts) == [unit |-> "SECONDS", ts |-> ts]
HOURS(ts) == [unit |-> "HOURS", ts |-> ts]

Timestamps == {NOW, SECONDS(11), HOURS(2)}

\* impl fmt::Display for Timestamp
TimestampDisplay(t) ==
    IF t.unit = "NOW" THEN <<>> ELSE Decimal(t.ts)

\* struct ValidQuery(String)
ValidQuery(string) == [inner |-> string]

\* ValidQuery::get
get(valid) == valid.inner

Ok(value) == [ok |-> TRUE, value |-> value, kind |-> "", msg |-> ""]
Err(kind, msg) == [ok |-> FALSE, value |-> ValidQuery(<<>>), kind |-> kind, msg |-> msg]

\* a value of the enum InfluxDbQuery: Read(InfluxDbReadQuery) or
\* Write(InfluxDbWriteQuery), with the fields of both variants
ReadQuery(queries) ==
    [kind |-> "Read", queries |-> queries,
     timestamp |-> NOW, measurement |-> <<>>, tags |-> <<>>, fields |-> <<>>]

WriteQuery(timestamp, measurement, tags, fields) ==
    [kind |-> "Write", queries |-> <<>>,
     timestamp |-> timestamp, measurement |-> measurement,
     tags |-> tags, fields |-> fields]

\* InfluxDbReadQuery::new
InfluxDbReadQuery_new(query) == ReadQuery(<<query>>)

\* InfluxDbReadQuery::add
InfluxDbReadQuery_add(self, query) ==
    [self EXCEPT !.queries = Append(self.queries, query)]

ReadBuildReversed(self) ==
    Ok(ValidQuery(Join([i \in 1..Len(self.queries) |->
                          self.queries[Len(self.queries) + 1 - i]], <<";">>)))

\* InfluxDbReadQuery::build
ReadBuild(self) == Ok(ValidQuery(Join(self.queries, <<";">>)))

\* InfluxDbWriteQuery::new
InfluxDbWriteQuery_new(timestamp, measurement) ==
    WriteQuery(timestamp, measurement, <<>>, <<>>)

\* InfluxDbWriteQuery::add_field
add_field(self, key, value) ==
    [self EXCEPT !.fields = Append(self.fields, <<key, value>>)]

\* InfluxDbWriteQuery::add_tag
add_tag(self, key, value) ==
    [self EXCEPT !.tags = Append(self.tags, <<key, value>>)]

RECURSIVE Escape(_)
\* commas, spaces and equals signs of a key or tag value are backslash-escaped
Escape(s) ==
    IF Len(s) = 0 THEN <<>>
    ELSE (IF Head(s) \in {",", " ", "="} THEN <<"\\", Head(s)>> ELSE <<Head(s)>>)
         \o Escape(Tail(s))

Integer(n) == [type |-> "Integer", n |-> n, b |-> FALSE]
Boolean(b) == [type |-> "Boolean", n |-> 0, b |-> b]

\* a field value in line protocol: integers carry the suffix i
FieldValue(v) ==
    IF v.type = "Integer" THEN Decimal(v.n) \o <<"i">>
    ELSE IF v.b THEN <<"t", "r", "u", "e">> ELSE <<"f", "a", "l", "s", "e">>

FieldsEmptyMessage == "fields cannot be empty"

\* InfluxDbWriteQuery::build
WriteBuild(self) ==
    IF Len(self.fields) = 0
    THEN Err("InvalidQueryError", FieldsEmptyMessage)
    ELSE
      LET tags == Join([i \in 1..Len(self.tags) |->
                          Escape(self.tags[i][1]) \o <<"=">> \o Escape(self.tags[i][2])],
                       <<",">>)
          fields == Join([i \in 1..Len(self.fields) |->
                            Escape(self.fields[i][1]) \o <<"=">>
                              \o FieldValue(self.fields[i][2])],
                         <<",">>)
      IN  Ok(ValidQuery(
            Escape(self.measurement)
              \o (IF Len(self.tags) = 0 THEN <<>> ELSE <<",">> \o tags)
              \o <<" ">> \o fields
              \o (IF self.timestamp.unit = "NOW" THEN <<>>
                  ELSE <<" ">> \o TimestampDisplay(self.timestamp))))

\* InfluxDbWriteQuery::get_precision
get_precision(self) ==
    CASE self.timestamp.unit = "NOW" -> <<>>
      [] self.timestamp.unit = "SECONDS" -> <<"s">>
      [] self.timestamp.unit = "HOURS" -> <<"h">>

\* InfluxDbQuery::build
build(self) ==
    IF self.kind = "Write" THEN WriteBuild(self) ELSE ReadBuild(self)

\* impl Display for InfluxDbError, as used on a render error
ErrorDisplay(err) == err.msg

Measurements == { <<"m">> }
TagChoices == { << <<"t">>, <<"a", " ", "b">> >> }
FieldChoices == { << <<"f">>, Integer(15) >>, << <<"g">>, Boolean(TRUE) >> }

-----------------------------------------------------------------------------
(* URLs and requests (reqwest::Url, reqwest::RequestBuilder).              *)

Letters ==
    {"a", "b", "c", "d", "e", "f", "g", "h", "i", "j", "k", "l", "m",
     "n", "o", "p", "q", "r", "s", "t", "u", "v", "w", "x", "y", "z",
     "A", "B", "C", "D", "E", "F", "G", "H", "I", "J", "K", "L", "M",
     "N", "O", "P", "Q", "R", "S", "T", "U", "V", "W", "X", "Y", "Z"}

SchemeChars == Letters \cup {Digits[i] : i \in 1..10} \cup {"+", "-", "."}

\* Url::parse of an input without a base: the input must start with a scheme
\* (a letter, then scheme characters, then ':'), or the parse fails with
\* ParseError::RelativeUrlWithoutBase
HasScheme(input) ==
    \E i \in 2..Len(input) :
        /\ input[i] = ":"
        /\ input[1] \in Letters
        /\ \A k \in 2..(i - 1) : input[k] \in SchemeChars

RelativeUrlWithoutBase == "relative URL without a base"

NoUrl == [href |-> <<>>, pairs |-> <<>>]

\* Url::parse_with_params(input, params)
parse_with_params(input, params) ==
    IF HasScheme(input)
    THEN [ok |-> TRUE, url |-> [href |-> input, pairs |-> params], msg |-> ""]
    ELSE [ok |-> FALSE, url |-> NoUrl, msg |-> RelativeUrlWithoutBase]

\* url.query_pairs_mut().append_pair(name, value)
append_pair(url, name, value) ==
    [url EXCEPT !.pairs = Append(url.pairs, <<name, value>>)]

QueryPath == <<"/", "q", "u", "e", "r", "y">>
WritePath == <<"/", "w", "r", "i", "t", "e">>

NoRequest == [method |-> "", url |-> NoUrl, body |-> <<>>]

\* Client::get(url)
ClientGet(url) == [method |-> "GET", url |-> url, body |-> <<>>]

\* Client::post(url)
ClientPost(url) == [method |-> "POST", url |-> url, body |-> <<>>]

\* RequestBuilder::body
WithBody(request, body) == [request EXCEPT !.body = body]

-----------------------------------------------------------------------------
(* Bytes and UTF-8 (std::str::from_utf8, str::as_bytes).                   *)

\* the ASCII characters from 32 (space) to 95 (_)
Ascii32 ==
    <<
       " ", "!", "\"", "#", "$", "%", "&", "'", "(", ")", "*", "+",
       ",", "-", ".", "/", "0", "1", "2", "3", "4", "5", "6", "7",
       "8", "9", ":", ";", "<", "=", ">", "?", "@", "A", "B", "C",
       "D", "E", "F", "G", "H", "I", "J", "K", "L", "M", "N", "O",
       "P", "Q", "R", "S", "T", "U", "V", "W", "X", "Y", "Z", "[",
       "\\", "]", "^", "_"
    >>

\* the ASCII characters from 97 (a) to 126 (~)
Ascii97 ==
    <<
       "a", "b", "c", "d", "e", "f", "g", "h", "i", "j", "k", "l",
       "m", "n", "o", "p", "q", "r", "s", "t", "u", "v", "w", "x",
       "y", "z", "{", "|", "}", "~"
    >>

\* the code of an ASCII character
Code(c) ==
    IF \E i \in 1..Len(Ascii32) : Ascii32[i] = c
    THEN 31 + (CHOOSE i \in 1..Len(Ascii32) : Ascii32[i] = c)
    ELSE 96 + (CHOOSE i \in 1..Len(Ascii97) : Ascii97[i] = c)

\* str::as_bytes of ASCII text
Bytes(s) == [i \in 1..Len(s) |-> Code(s[i])]

IsCont(b) == b >= 128 /\ b <= 191

\* the length of the sequence a lead byte starts, 0 for a byte that starts none
SeqLen(b) ==
    IF b < 128 THEN 1
    ELSE IF b >= 194 /\ b <= 223 THEN 2
    ELSE IF b >= 224 /\ b <= 239 THEN 3
    ELSE IF b >= 240 /\ b <= 244 THEN 4
    ELSE 0

\* the second byte of a sequence is in the range its lead byte allows (no
\* overlong forms, no surrogates, nothing above U+10FFFF)
SecondOk(lead, b) ==
    IF lead = 224 THEN b >= 160 /\ b <= 191
    ELSE IF lead = 237 THEN b >= 128 /\ b <= 159
    ELSE IF lead = 240 THEN b >= 144 /\ b <= 191
    ELSE IF lead = 244 THEN b >= 128 /\ b <= 143
    ELSE IsCont(b)

\* a complete, well-formed sequence starts at position i
SeqAt(b, i) ==
    LET n == SeqLen(b[i])
    IN  /\ n >= 1
        /\ i + n - 1 <= Len(b)
        /\ n >= 2 => SecondOk(b[i], b[i + 1])
        /\ \A k \in 2..(n - 1) : IsCont(b[i + k])

\* std::str::from_utf8(bytes).is_ok(): every byte starts a well-formed
\* sequence or continues the one that starts at most three bytes before it
ValidUtf8(b) ==
    \A i \in 1..Len(b) :
        IF IsCont(b[i])
        THEN \E j \in 1..3 :
               /\ i - j >= 1
               /\ SeqLen(b[i - j]) > j
               /\ SeqAt(b, i - j)
        ELSE SeqAt(b, i)

ErrorPatternUnquoted == Bytes(<<"e", "r", "r", "o", "r">>)

\* the pattern "\"error\"" of query(), as bytes
ErrorPattern == Bytes(<<"\"", "e", "r", "r", "o", "r", "\"">>)

-----------------------------------------------------------------------------
(* JSON values (serde_json::Value) and the typed decodings of              *)
(* integrations/serde_integration.rs.                                      *)

JStr(s) == [t |-> "str", v |-> s]
JNum(n) == [t |-> "num", v |-> n]
JArr(a) == [t |-> "arr", v |-> a]
\* an object: its members <<key, value>> in document order
JObj(m) == [t |-> "obj", v |-> m]
JNull == [t |-> "null", v |-> 0]

Quoted(s) == <<"\"">> \o s \o <<"\"">>

RECURSIVE Serialize(_)
\* the JSON text of a value
Serialize(j) ==
    CASE j.t = "str" -> Quoted(j.v)
      [] j.t = "num" -> Decimal(j.v)
      [] j.t = "arr" ->
           <<"[">> \o Join([i \in 1..Len(j.v) |-> Serialize(j.v[i])], <<",">>)
                   \o <<"]">>
      [] j.t = "obj" ->
           <<"{">> \o Join([i \in 1..Len(j.v) |->
                              Quoted(j.v[i][1]) \o <<":">> \o Serialize(j.v[i][2])],
                           <<",">>)
                   \o <<"}">>
      [] OTHER -> <<"n", "u", "l", "l">>

Key_error == <<"e", "r", "r", "o", "r">>
Key_results == <<"r", "e", "s", "u", "l", "t", "s">>
Key_series == <<"s", "e", "r", "i", "e", "s">>
Key_name == <<"n", "a", "m", "e">>
Key_values == <<"v", "a", "l", "u", "e", "s">>

\* {"series":[{"name": name, "values": values}]}
SeriesEntry(name, values) ==
    JObj(<< <<Key_series,
              JArr(<< JObj(<< <<Key_name, JStr(name)>>,
                              <<Key_values, JArr(values)>> >>) >>)>> >>)

\* the result entries a server sends: integer rows, string rows, and a
\* statement-level error (an entry without series)
Entries ==
    { SeriesEntry(<<"a">>, <<JNum(1), JNum(2)>>),
      SeriesEntry(<<"b">>, <<JStr(<<"x">>)>>),
      JObj(<< <<Key_error, JStr(<<"n", "o">>)>> >>) }

MaxResults == 2

EntryLists ==
    UNION { [1..n -> Entries] : n \in 0..MaxResults }

\* the JSON documents a server sends
JsonDocs ==
    { JObj(<< <<Key_results, JArr(es)>> >>) : es \in EntryLists }
      \cup { JObj(<< <<Key_error, JStr(<<"n", "o">>)>> >>),
             JObj(<< <<Key_error, JStr(<<"n", "o">>)>>, <<Key_results, JArr(<<>>)>> >>),
             JObj(<< <<Key_name, JStr(<<"a">>)>> >>),
             JArr(<< JStr(<<"n", "o">>) >>) }

\* bodies that are no JSON text: empty, text with the word error, text
\* quoting "error", two bytes of valid UTF-8, and two byte strings that are
\* not UTF-8
RawBodies ==
    { <<>>,
      Bytes(<<"n", "o", " ">> \o Key_error),
      Bytes(<<"a", " ">> \o Quoted(Key_error)),
      <<195, 169>>,
      <<111, 195>>,
      <<255>> \o Bytes(Quoted(Key_error)) }

\* the body that carries a document
BodyOf == [d \in JsonDocs |-> Bytes(Serialize(d))]

Bodies == RawBodies \cup { BodyOf[d] : d \in JsonDocs }

\* serde_json's parse of the bytes into a value: the document they are the
\* text of, if any
ParseJson(bytes) ==
    IF \E d \in JsonDocs : BodyOf[d] = bytes
    THEN [ok |-> TRUE, value |-> CHOOSE d \in JsonDocs : BodyOf[d] = bytes]
    ELSE [ok |-> FALSE, value |-> JNull]

HasMember(j, key) == \E i \in 1..Len(j.v) : j.v[i][1] = key

Member(j, key) == j.v[CHOOSE i \in 1..Len(j.v) : j.v[i][1] = key][2]

\* a field of a #[derive(Deserialize)] struct with n fields: the member of
\* that name of an object, or the element at its position of an array of n
StructField(j, key, pos, n) ==
    IF j.t = "obj" /\ HasMember(j, key)
    THEN [ok |-> TRUE, value |-> Member(j, key)]
    ELSE IF j.t = "arr" /\ Len(j.v) = n
    THEN [ok |-> TRUE, value |-> j.v[pos]]
    ELSE [ok |-> FALSE, value |-> JNull]

\* serde_json::from_slice::<_DatabaseError>(&bytes)
DecodeDatabaseError(bytes) ==
    LET parsed == ParseJson(bytes)
        field == StructField(parsed.value, Key_error, 1, 1)
    IN  IF parsed.ok /\ field.ok /\ field.value.t = "str"
        THEN [ok |-> TRUE, error |-> field.value.v]
        ELSE [ok |-> FALSE, error |-> <<>>]

\* serde_json::from_slice::<DatabaseQueryResult>(&bytes)
DecodeDatabaseQueryResult(bytes) ==
    LET parsed == ParseJson(bytes)
        field == StructField(parsed.value, Key_results, 1, 1)
    IN  IF ~parsed.ok
        THEN [ok |-> FALSE, results |-> <<>>, detail |-> "expected value"]
        ELSE IF ~field.ok
        THEN [ok |-> FALSE, results |-> <<>>, detail |-> "missing field results"]
        ELSE IF field.value.t # "arr"
        THEN [ok |-> FALSE, results |-> <<>>, detail |-> "invalid type"]
        ELSE [ok |-> TRUE, results |-> field.value.v, detail |-> ""]

\* the row types T a caller asks for
RowTypes == {"i64", "String"}

\* T::deserialize of one row
RowMatches(j, T) ==
    \/ T = "i64" /\ j.t = "num"
    \/ T = "String" /\ j.t = "str"

\* InfluxDbSeries::<T>::deserialize
SeriesMatches(j, T) ==
    LET name == StructField(j, Key_name, 1, 2)
        values == StructField(j, Key_values, 2, 2)
    IN  /\ name.ok /\ name.value.t = "str"
        /\ values.ok /\ values.value.t = "arr"
        /\ \A i \in 1..Len(values.value.v) : RowMatches(values.value.v[i], T)

TypedSeries(j) ==
    [name |-> StructField(j, Key_name, 1, 2).value.v,
     values |-> StructField(j, Key_values, 2, 2).value.v]

\* serde_json::from_value::<InfluxDbReturn<T>>(value)
DecodeReturn(value, T) ==
    LET series == StructField(value, Key_series, 1, 1)
    IN  IF /\ series.ok /\ series.value.t = "arr"
           /\ \A i \in 1..Len(series.value.v) : SeriesMatches(series.value.v[i], T)
        THEN [ok |-> TRUE,
              series |-> [i \in 1..Len(series.value.v) |->
                            TypedSeries(series.value.v[i])]]
        ELSE [ok |-> FALSE, series |-> <<>>]

VecRemoveLast(vec, index) ==
    IF index >= Len(vec)
    THEN [panic |-> TRUE, removed |-> JNull, rest |-> vec]
    ELSE [panic |-> FALSE,
          removed |-> vec[Len(vec)],
          rest |-> SubSeq(vec, 1, Len(vec) - 1)]

\* Vec::remove(index): panics when index is out of bounds, otherwise takes
\* the element out and shifts the later ones down
VecRemove(vec, index) ==
    IF index >= Len(vec)
    THEN [panic |-> TRUE, removed |-> JNull, rest |-> vec]
    ELSE [panic |-> FALSE,
          removed |-> vec[index + 1],
          rest |-> [i \in 1..(Len(vec) - 1) |->
                      IF i <= index THEN vec[i] ELSE vec[i + 1]]]

-----------------------------------------------------------------------------
(* Responses (reqwest::Response).                                          *)

\* StatusCode::UNAUTHORIZED, StatusCode::FORBIDDEN
UNAUTHORIZED == 401
FORBIDDEN == 403

\* the statuses a server answers with
Statuses == {200, UNAUTHORIZED, FORBIDDEN, 500}

NoResponse == [sendOk |-> FALSE, status |-> 0, bodyOk |-> FALSE, body |-> <<>>]

\* what the transport gives a call: send() fails, or a status arrives and
\* bytes() fails, or a status and a body arrive
Responses ==
    {NoResponse}
      \cup { [sendOk |-> TRUE, status |-> s, bodyOk |-> FALSE, body |-> <<>>] :
               s \in Statuses }
      \cup { [sendOk |-> TRUE, status |-> s, bodyOk |-> TRUE, body |-> b] :
               s \in Statuses, b \in Bodies }

-----------------------------------------------------------------------------
(* Return values and the record of a call.                                 *)

NoRet ==
    [op |-> "", kind |-> "", msg |-> "", detail |-> "", text |-> <<>>,
     error |-> <<>>, params |-> <<>>, query |-> <<>>, series |-> <<>>, T |-> ""]

\* Err(InfluxDbError::<kind> { error: <msg> })
RetErr(op, kind, msg) == [NoRet EXCEPT !.op = op, !.kind = kind, !.msg = msg]

NoCall ==
    [op |-> "", urlParsed |-> FALSE, sent |-> FALSE, request |-> NoRequest,
     responded |-> FALSE, response |-> NoResponse, bodyRead |-> FALSE]

-----------------------------------------------------------------------------
(* InfluxDbClient::query (client/mod.rs).                                  *)

UsesGetSelectOnly(read_query) == Contains(read_query, SELECT)

\* read_query.contains("SELECT") || read_query.contains("SHOW")
UsesGet(read_query) == Contains(read_query, SELECT) \/ Contains(read_query, SHOW)

\* a step of query() or json_query() that returns to the caller
Return(op, kind, msg, urlParsed) ==
    [return |-> TRUE, ret |-> RetErr(op, kind, msg),
     urlParsed |-> urlParsed, request |-> NoRequest]

\* a step of query() or json_query() that goes on to send the request
Send(request) ==
    [return |-> FALSE, ret |-> NoRet, urlParsed |-> TRUE, request |-> request]

QueryPrepareUrlFirst(self, query) ==
    LET basic_parameters == IntoBorrowed(self)
        built == build(query)
        parsed == parse_with_params(
                    database_url(self)
                      \o (IF query.kind = "Read" THEN QueryPath ELSE WritePath),
                    basic_parameters)
    IN  IF ~parsed.ok
        THEN Return("query",
                    IF query.kind = "Read" THEN "UrlConstructionError"
                    ELSE "InvalidQueryError",
                    parsed.msg, TRUE)
        ELSE IF ~built.ok
        THEN Return("query", "InvalidQueryError", ErrorDisplay(built), TRUE)
        ELSE IF query.kind = "Read"
        THEN IF UsesGet(get(built.value))
             THEN Send(ClientGet(append_pair(parsed.url, "q", get(built.value))))
             ELSE Send(ClientPost(append_pair(parsed.url, "q", get(built.value))))
        ELSE Send(WithBody(ClientPost(append_pair(parsed.url, "precision",
                                                  get_precision(query))),
                           get(built.value)))

\* query(), from its entry to client.send()
QueryPrepare(self, query) ==
    LET basic_parameters == IntoBorrowed(self)
        built == build(query)
    IN  IF ~built.ok
        THEN Return("query", "InvalidQueryError", ErrorDisplay(built), FALSE)
        ELSE IF query.kind = "Read"
        THEN
          LET read_query == get(built.value)
              parsed == parse_with_params(database_url(self) \o QueryPath,
                                          basic_parameters)
              url == append_pair(parsed.url, "q", read_query)
          IN  IF ~parsed.ok
              THEN Return("query", "UrlConstructionError", parsed.msg, TRUE)
              ELSE IF UsesGet(read_query)
              THEN Send(ClientGet(url))
              ELSE Send(ClientPost(url))
        ELSE
          LET parsed == parse_with_params(database_url(self) \o WritePath,
                                          basic_parameters)
              url == append_pair(parsed.url, "precision", get_precision(query))
          IN  IF ~parsed.ok
              THEN Return("query", "InvalidQueryError", parsed.msg, TRUE)
              ELSE Send(WithBody(ClientPost(url), get(built.value)))

\* query(), from the arrival of the response to its return
QueryClassify(resp) ==
    IF ~resp.sendOk
    THEN [ret |-> RetErr("query", "ConnectionError", "send"), bodyRead |-> FALSE]
    ELSE IF resp.status = UNAUTHORIZED
    THEN [ret |-> RetErr("query", "AuthorizationError", ""), bodyRead |-> FALSE]
    ELSE IF resp.status = FORBIDDEN
    THEN [ret |-> RetErr("query", "AuthenticationError", ""), bodyRead |-> FALSE]
    ELSE IF ~resp.bodyOk
    THEN [ret |-> RetErr("query", "ConnectionError", "bytes"), bodyRead |-> TRUE]
    ELSE IF ValidUtf8(resp.body)
    THEN IF Contains(resp.body, ErrorPattern)
         THEN [ret |-> [RetErr("query", "DatabaseError", "influxdb error: \"{}\"")
                          EXCEPT !.text = resp.body],
               bodyRead |-> TRUE]
         ELSE [ret |-> [NoRet EXCEPT !.op = "query", !.kind = "Ok",
                                     !.text = resp.body],
               bodyRead |-> TRUE]
    ELSE [ret |-> RetErr("query", "DeserializationError",
                         "response could not be converted to UTF-8 encoded string"),
          bodyRead |-> TRUE]

-----------------------------------------------------------------------------
(* InfluxDbClient::json_query and DatabaseQueryResult::deserialize_next    *)
(* (integrations/serde_integration.rs).                                    *)

\* json_query(), from its entry to client.send()
JsonPrepare(self, query) ==
    LET built == ReadBuild(query)
        basic_parameters == IntoBorrowed(self)
        read_query == get(built.value)
        parsed == parse_with_params(database_url(self) \o QueryPath,
                                    basic_parameters)
        url == append_pair(parsed.url, "q", read_query)
    IN  IF ~built.ok
        THEN [return |-> TRUE, ret |-> [NoRet EXCEPT !.op = "json_query", !.kind = "Panic"],
              urlParsed |-> FALSE, request |-> NoRequest]
        ELSE IF ~parsed.ok
        THEN Return("json_query", "UrlConstructionError", parsed.msg, TRUE)
        ELSE IF UsesGet(read_query)
        THEN Send(ClientGet(url))
        ELSE Return("json_query", "InvalidQueryError",
                    "Only SELECT and SHOW queries supported with JSON deserialization",
                    TRUE)

JsonClassifyBodyFirst(resp) ==
    LET error == DecodeDatabaseError(resp.body)
        deserialized == DecodeDatabaseQueryResult(resp.body)
        none == [ok |-> FALSE, results |-> <<>>]
    IN  IF ~resp.sendOk
        THEN [ret |-> RetErr("json_query", "ConnectionError", "send"),
              bodyRead |-> FALSE, value |-> none]
        ELSE IF ~resp.bodyOk
        THEN [ret |-> RetErr("json_query", "ConnectionError", "bytes"),
              bodyRead |-> TRUE, value |-> none]
        ELSE IF error.ok
        THEN [ret |-> [RetErr("json_query", "DatabaseError", "{}")
                         EXCEPT !.error = error.error],
              bodyRead |-> TRUE, value |-> none]
        ELSE IF resp.status = UNAUTHORIZED
        THEN [ret |-> RetErr("json_query", "AuthorizationError", ""),
              bodyRead |-> TRUE, value |-> none]
        ELSE IF resp.status = FORBIDDEN
        THEN [ret |-> RetErr("json_query", "AuthenticationError", ""),
              bodyRead |-> TRUE, value |-> none]
        ELSE IF ~deserialized.ok
        THEN [ret |-> [RetErr("json_query", "DeserializationError", "serde error: {}")
                         EXCEPT !.detail = deserialized.detail],
              bodyRead |-> TRUE, value |-> none]
        ELSE [ret |-> [NoRet EXCEPT !.op = "json_query", !.kind = "Ok"],
              bodyRead |-> TRUE,
              value |-> [ok |-> TRUE, results |-> deserialized.results]]

JsonClassifyResultFirst(resp) ==
    LET error == DecodeDatabaseError(resp.body)
        deserialized == DecodeDatabaseQueryResult(resp.body)
        none == [ok |-> FALSE, results |-> <<>>]
    IN  IF ~resp.sendOk
        THEN [ret |-> RetErr("json_query", "ConnectionError", "send"),
              bodyRead |-> FALSE, value |-> none]
        ELSE IF resp.status = UNAUTHORIZED
        THEN [ret |-> RetErr("json_query", "AuthorizationError", ""),
              bodyRead |-> FALSE, value |-> none]
        ELSE IF resp.status = FORBIDDEN
        THEN [ret |-> RetErr("json_query", "AuthenticationError", ""),
              bodyRead |-> FALSE, value |-> none]
        ELSE IF ~resp.bodyOk
        THEN [ret |-> RetErr("json_query", "ConnectionError", "bytes"),
              bodyRead |-> TRUE, value |-> none]
        ELSE IF deserialized.ok
        THEN [ret |-> [NoRet EXCEPT !.op = "json_query", !.kind = "Ok"],
              bodyRead |-> TRUE,
              value |-> [ok |-> TRUE, results |-> deserialized.results]]
        ELSE IF error.ok
        THEN [ret |-> [RetErr("json_query", "DatabaseError", "{}")
                         EXCEPT !.error = error.error],
              bodyRead |-> TRUE, value |-> none]
        ELSE [ret |-> [RetErr("json_query", "DeserializationError", "serde error: {}")
                         EXCEPT !.detail = deserialized.detail],
              bodyRead |-> TRUE, value |-> none]

\* json_query(), from the arrival of the response to its return
JsonClassify(resp) ==
    LET error == DecodeDatabaseError(resp.body)
        deserialized == DecodeDatabaseQueryResult(resp.body)
        none == [ok |-> FALSE, results |-> <<>>]
    IN  IF ~resp.sendOk
        THEN [ret |-> RetErr("json_query", "ConnectionError", "send"),
              bodyRead |-> FALSE, value |-> none]
        ELSE IF resp.status = UNAUTHORIZED
        THEN [ret |-> RetErr("json_query", "AuthorizationError", ""),
              bodyRead |-> FALSE, value |-> none]
        ELSE IF resp.status = FORBIDDEN
        THEN [ret |-> RetErr("json_query", "AuthenticationError", ""),
              bodyRead |-> FALSE, value |-> none]
        ELSE IF ~resp.bodyOk
        THEN [ret |-> RetErr("json_query", "ConnectionError", "bytes"),
              bodyRead |-> TRUE, value |-> none]
        ELSE IF error.ok
        THEN [ret |-> [RetErr("json_query", "DatabaseError", "{}")
                         EXCEPT !.error = error.error],
              bodyRead |-> TRUE, value |-> none]
        ELSE IF ~deserialized.ok
        THEN [ret |-> [RetErr("json_query", "DeserializationError", "serde error: {}")
                         EXCEPT !.detail = deserialized.detail],
              bodyRead |-> TRUE, value |-> none]
        ELSE [ret |-> [NoRet EXCEPT !.op = "json_query", !.kind = "Ok"],
              bodyRead |-> TRUE,
              value |-> [ok |-> TRUE, results |-> deserialized.results]]

\* deserialize_next::<T>() on a DatabaseQueryResult with these results
deserialize_next(vec, T) ==
    LET taken == VecRemove(vec, 0)
        item == DecodeReturn(taken.removed, T)
    IN  IF taken.panic
        THEN [panic |-> TRUE, results |-> vec, taken |-> <<>>,
              ret |-> [NoRet EXCEPT !.op = "deserialize_next", !.kind = "Panic", !.T = T]]
        ELSE IF item.ok
        THEN [panic |-> FALSE, results |-> taken.rest, taken |-> <<taken.removed>>,
              ret |-> [NoRet EXCEPT !.op = "deserialize_next", !.kind = "Ok",
                                    !.series = item.series, !.T = T]]
        ELSE [panic |-> FALSE, results |-> taken.rest, taken |-> <<taken.removed>>,
              ret |-> [RetErr("deserialize_next", "DeserializationError",
                              "could not deserialize: {}") EXCEPT !.T = T]]

-----------------------------------------------------------------------------
(* The caller's operations.                                                *)

\* let client = InfluxDbClient::new(url, database)
New(url, database) ==
    /\ pc = "idle"
    /\ client' = InfluxDbClient_new(url, database)
    /\ clientAlive' = TRUE
    /\ UNCHANGED <<q, pc, call, ret, results, resultAlive, consumed>>

\* let client = client.with_auth(username, password)
WithAuth(username, password) ==
    /\ pc = "idle"
    /\ clientAlive
    /\ client' = with_auth(client, username, password)
    /\ UNCHANGED <<clientAlive, q, pc, call, ret, results, resultAlive, consumed>>

\* let params: Vec<(String, String)> = client.into()
IntoOwnedCall ==
    /\ pc = "idle"
    /\ clientAlive
    /\ ret' = [NoRet EXCEPT !.op = "into", !.kind = "Ok", !.params = IntoOwned(client)]
    /\ clientAlive' = FALSE
    /\ UNCHANGED <<client, q, pc, call, results, resultAlive, consumed>>

\* let params: Vec<(String, String)> = (&client).into()
IntoBorrowedCall ==
    /\ pc = "idle"
    /\ clientAlive
    /\ ret' = [NoRet EXCEPT !.op = "into_ref", !.kind = "Ok",
                            !.params = IntoBorrowed(client)]
    /\ UNCHANGED <<client, clientAlive, q, pc, call, results, resultAlive, consumed>>

\* let q = create_raw_read_query(statement)
ReadNew(statement) ==
    /\ pc = "idle"
    /\ q' = InfluxDbReadQuery_new(statement)
    /\ UNCHANGED <<client, clientAlive, pc, call, ret, results, resultAlive, consumed>>

\* let q = q.add(statement)
ReadAdd(statement) ==
    /\ pc = "idle"
    /\ q.kind = "Read"
    /\ Len(q.queries) < MaxStatements
    /\ q' = InfluxDbReadQuery_add(q, statement)
    /\ UNCHANGED <<client, clientAlive, pc, call, ret, results, resultAlive, consumed>>

\* let q = create_write_query(timestamp, measurement)
WriteNew(timestamp, measurement) ==
    /\ pc = "idle"
    /\ q' = InfluxDbWriteQuery_new(timestamp, measurement)
    /\ UNCHANGED <<client, clientAlive, pc, call, ret, results, resultAlive, consumed>>

\* let q = q.add_field(key, value)
AddField(field) ==
    /\ pc = "idle"
    /\ q.kind = "Write"
    /\ Len(q.fields) < MaxFields
    /\ q' = add_field(q, field[1], field[2])
    /\ UNCHANGED <<client, clientAlive, pc, call, ret, results, resultAlive, consumed>>

\* let q = q.add_tag(key, value)
AddTag(tag) ==
    /\ pc = "idle"
    /\ q.kind = "Write"
    /\ Len(q.tags) < MaxTags
    /\ q' = add_tag(q, tag[1], tag[2])
    /\ UNCHANGED <<client, clientAlive, pc, call, ret, results, resultAlive, consumed>>

\* q.build()
Build ==
    /\ pc = "idle"
    /\ LET built == build(q)
       IN  ret' = IF built.ok
                  THEN [NoRet EXCEPT !.op = "build", !.kind = "Ok",
                                     !.query = get(built.value)]
                  ELSE RetErr("build", built.kind, built.msg)
    /\ UNCHANGED <<client, clientAlive, q, pc, call, results, resultAlive, consumed>>

\* client.query(&q), up to the await of send()
QueryCall ==
    /\ pc = "idle"
    /\ clientAlive
    /\ LET step == QueryPrepare(client, q)
       IN  /\ call' = [NoCall EXCEPT !.op = "query",
                                     !.urlParsed = step.urlParsed,
                                     !.sent = ~step.return,
                                     !.request = step.request]
           /\ ret' = step.ret
           /\ pc' = IF step.return THEN "idle" ELSE "query"
    /\ UNCHANGED <<client, clientAlive, q, results, resultAlive, consumed>>

\* client.query(&q), from the response on
QueryRespond(resp) ==
    /\ pc = "query"
    /\ LET outcome == QueryClassify(resp)
       IN  /\ call' = [call EXCEPT !.request = NoRequest,
                                   !.responded = TRUE, !.response = resp,
                                   !.bodyRead = outcome.bodyRead]
           /\ ret' = outcome.ret
    /\ pc' = "idle"
    /\ UNCHANGED <<client, clientAlive, q, results, resultAlive, consumed>>

\* client.json_query(q), up to the await of send()
JsonQueryCall ==
    /\ pc = "idle"
    /\ clientAlive
    /\ q.kind = "Read"
    /\ LET step == JsonPrepare(client, q)
       IN  /\ call' = [NoCall EXCEPT !.op = "json_query",
                                     !.urlParsed = step.urlParsed,
                                     !.sent = ~step.return,
                                     !.request = step.request]
           /\ ret' = step.ret
           /\ pc' = IF ~step.return THEN "json_query"
                    ELSE IF step.ret.kind = "Panic" THEN "panicked"
                    ELSE "idle"
    /\ UNCHANGED <<client, clientAlive, q, results, resultAlive, consumed>>

\* client.json_query(q), from the response on
JsonQueryRespond(resp) ==
    /\ pc = "json_query"
    /\ LET outcome == JsonClassify(resp)
       IN  /\ call' = [call EXCEPT !.request = NoRequest,
                                   !.responded = TRUE, !.response = resp,
                                   !.bodyRead = outcome.bodyRead]
           /\ ret' = outcome.ret
           /\ IF outcome.value.ok
              THEN /\ results' = outcome.value.results
                   /\ resultAlive' = TRUE
                   /\ consumed' = <<>>
              ELSE UNCHANGED <<results, resultAlive, consumed>>
    /\ pc' = "idle"
    /\ UNCHANGED <<client, clientAlive, q>>

\* db_result.deserialize_next::<T>()
DeserializeNext(T) ==
    /\ pc = "idle"
    /\ resultAlive
    /\ LET next == deserialize_next(results, T)
       IN  /\ results' = next.results
           /\ consumed' = consumed \o next.taken
           /\ ret' = next.ret
           /\ pc' = IF next.panic THEN "panicked" ELSE "idle"
    /\ UNCHANGED <<client, clientAlive, q, call, resultAlive>>

-----------------------------------------------------------------------------
(* The specifications.  The client, the builders, query() and json_query() *)
(* share no state beyond the values passed between them, so each           *)
(* specification runs the operations of one part from every input of it.   *)

Clients ==
    {InfluxDbClient_new(url, database) : url \in Urls, database \in Databases}

\* the state after construction of a client and a query
Start(clients, queries) ==
    /\ client \in clients
    /\ clientAlive = TRUE
    /\ q \in queries
    /\ pc = "idle"
    /\ call = NoCall
    /\ ret = NoRet
    /\ results = <<>>
    /\ resultAlive = FALSE
    /\ consumed = <<>>

ReadStart == {InfluxDbReadQuery_new(statement) : statement \in Statements}

\* the client and its conversions
InitClient == Start(Clients, {InfluxDbReadQuery_new(SELECT)})

NextClient ==
    \/ \E url \in Urls, database \in Databases : New(url, database)
    \/ \E auth \in Credentials : WithAuth(auth[1], auth[2])
    \/ IntoOwnedCall
    \/ IntoBorrowedCall

SpecClient == InitClient /\ [][NextClient]_vars

\* the query builders and build()
InitBuild == Start({InfluxDbClient_new(GoodUrl, <<"d", "1">>)}, ReadStart)

NextBuild ==
    \/ \E statement \in Statements : ReadNew(statement)
    \/ \E statement \in Statements : ReadAdd(statement)
    \/ \E timestamp \in Timestamps, measurement \in Measurements :
         WriteNew(timestamp, measurement)
    \/ \E field \in FieldChoices : AddField(field)
    \/ \E tag \in TagChoices : AddTag(tag)
    \/ Build

SpecBuild == InitBuild /\ [][NextBuild]_vars

\* query() on every client and every query
InitQuery == Start(Clients, ReadStart)

NextQuery ==
    \/ \E auth \in Credentials : WithAuth(auth[1], auth[2])
    \/ \E statement \in Statements : ReadNew(statement)
    \/ \E statement \in Statements : ReadAdd(statement)
    \/ \E timestamp \in Timestamps, measurement \in Measurements :
         WriteNew(timestamp, measurement)
    \/ \E field \in FieldChoices : AddField(field)
    \/ \E tag \in TagChoices : AddTag(tag)
    \/ QueryCall
    \/ \E resp \in Responses : QueryRespond(resp)

SpecQuery == InitQuery /\ [][NextQuery]_vars

\* query(), json_query() and deserialize_next on every response
InitJson == Start(Clients, ReadStart)

NextJson ==
    \/ QueryCall
    \/ \E resp \in Responses : QueryRespond(resp)
    \/ JsonQueryCall
    \/ \E resp \in Responses : JsonQueryRespond(resp)
    \/ \E T \in RowTypes : DeserializeNext(T)

SpecJson == InitJson /\ [][NextJson]_vars

-----------------------------------------------------------------------------
(* The claims.                                                             *)

\* pat occurs in s as a run of consecutive elements
HasSubstring(s, pat) ==
    \E i \in 0..Len(s) : i + Len(pat) <= Len(s) /\ SubSeq(s, i + 1, i + Len(pat)) = pat

ErrorKinds ==
    {"InvalidQueryError", "UrlConstructionError", "ConnectionError",
     "AuthorizationError", "AuthenticationError", "DatabaseError",
     "DeserializationError", "ProtocolError"}

\* C1: deserialize_next on a DatabaseQueryResult with no remaining entries
\* returns an error value to the caller and does not panic.
C1_EmptyReturnsError ==
    [][\A T \in RowTypes :
         (DeserializeNext(T) /\ Len(results) = 0)
           => (ret'.kind \in ErrorKinds /\ pc' = "idle")]_vars

\* C2: deserialize_next on n >= 1 remaining entries removes exactly the first
\* one and leaves the other n-1 in their order; it returns the typed decoding
\* of the removed entry when its shape matches T and a Deserialization error
\* otherwise; so the entries are taken once each, in first-added order.
C2_RemovesFirst ==
    [][\A T \in RowTypes :
         (DeserializeNext(T) /\ Len(results) >= 1)
           => /\ results' = Tail(results)
              /\ consumed' = Append(consumed, Head(results))
              /\ consumed' \o results' = consumed \o results
              /\ pc' = "idle"
              /\ IF DecodeReturn(Head(results), T).ok
                 THEN /\ ret'.kind = "Ok"
                      /\ ret'.series = DecodeReturn(Head(results), T).series
                 ELSE ret'.kind = "DeserializationError"]_vars

C2_Witness ==
    /\ ret.op = "deserialize_next"
    /\ ret.kind = "Ok"
    /\ Len(consumed) = 1
    /\ Len(results) = 1
    /\ results[1] # consumed[1]

\* the rendered text of the query that is being sent
Rendered == get(build(q).value)

\* C3: a query that reaches the send step goes out as follows: a Read query
\* with GET to /query when its rendered text contains SELECT or SHOW and with
\* POST to /query otherwise; a Write query with POST to /write, the rendered
\* text as body and the precision parameter after the basic parameters.
C3_Routing ==
    pc = "query" =>
      /\ call.sent
      /\ IF q.kind = "Read"
         THEN /\ call.request.method =
                   (IF HasSubstring(Rendered, SELECT) \/ HasSubstring(Rendered, SHOW)
                    THEN "GET" ELSE "POST")
              /\ call.request.url.href = client.url \o QueryPath
              /\ call.request.url.pairs = IntoBorrowed(client) \o << <<"q", Rendered>> >>
         ELSE /\ call.request.method = "POST"
              /\ call.request.url.href = client.url \o WritePath
              /\ call.request.body = Rendered
              /\ call.request.url.pairs =
                   IntoBorrowed(client) \o << <<"precision", get_precision(q)>> >>

C3_Witness ==
    /\ pc = "query"
    /\ q.kind = "Read"
    /\ call.request.method = "GET"
    /\ ~HasSubstring(Rendered, SELECT)
    /\ Len(q.queries) = 2

\* the last call was query() or json_query() and got a response with a status
Answered ==
    /\ call.responded
    /\ ret.op = call.op
    /\ call.response.sendOk

\* C4: in query() and in json_query(), a response with status 401 yields the
\* Authorization error and one with status 403 the Authentication error,
\* whatever its body is; the body is not read before.
C4_StatusFirst ==
    Answered =>
      /\ call.response.status = 401 =>
           (ret.kind = "AuthorizationError" /\ ~call.bodyRead)
      /\ call.response.status = 403 =>
           (ret.kind = "AuthenticationError" /\ ~call.bodyRead)

C4_Witness ==
    /\ Answered
    /\ call.op = "json_query"
    /\ call.response.status = 403
    /\ call.response.bodyOk
    /\ DecodeDatabaseError(call.response.body).ok

\* C5: when the response to query() has a status other than 401 and 403 and
\* its body is valid text, the call fails with a Database error wrapping the
\* body if the body contains "error" in double quotes, and otherwise returns
\* the body unchanged; a body that is not valid text gives a Deserialization
\* error.
C5_BodySniff ==
    (/\ Answered
     /\ call.op = "query"
     /\ call.response.status \notin {401, 403}
     /\ call.response.bodyOk)
      => IF ValidUtf8(call.response.body)
         THEN IF HasSubstring(call.response.body, <<34, 101, 114, 114, 111, 114, 34>>)
              THEN ret.kind = "DatabaseError" /\ ret.text = call.response.body
              ELSE ret.kind = "Ok" /\ ret.text = call.response.body
         ELSE ret.kind = "DeserializationError"

C5_Witness ==
    /\ Answered
    /\ call.op = "query"
    /\ call.response.status = 200
    /\ ret.kind = "DatabaseError"
    /\ ret.text = call.response.body

\* C6: whenever the base URL and the parameters form no valid URL, query()
\* fails with UrlConstruction and sends nothing, for a Read and for a Write
\* query alike.
C6_UrlConstruction ==
    [][(/\ QueryCall
        /\ build(q).ok
        /\ ~HasScheme(client.url \o (IF q.kind = "Read" THEN QueryPath ELSE WritePath)))
         => (ret'.kind = "UrlConstructionError" /\ ~call'.sent /\ pc' = "idle")]_vars

\* C7: when rendering fails (a Write query without fields) query() returns
\* InvalidQuery with the render error's message and neither builds a URL nor
\* sends anything, whatever the client is; a Write query with a field and a
\* Read query never fail at the render step.
C7_RenderFirst ==
    [][QueryCall =>
         IF q.kind = "Write" /\ Len(q.fields) = 0
         THEN /\ ret'.kind = "InvalidQueryError"
              /\ ret'.msg = FieldsEmptyMessage
              /\ ~call'.urlParsed
              /\ ~call'.sent
              /\ pc' = "idle"
         ELSE call'.urlParsed]_vars

C7_Witness ==
    /\ call.op = "query"
    /\ ret.op = "query"
    /\ ret.kind = "InvalidQueryError"
    /\ ret.msg = FieldsEmptyMessage
    /\ ~call.urlParsed
    /\ client.url = NoSchemeUrl
    /\ q.kind = "Write"

\* C8: json_query() rejects a Read query whose rendered text contains neither
\* SELECT nor SHOW with InvalidQuery, whatever the client is, and sends
\* nothing.
C8_RejectsFirst ==
    [][(/\ JsonQueryCall
        /\ ~HasSubstring(Rendered, SELECT)
        /\ ~HasSubstring(Rendered, SHOW))
         => (ret'.kind = "InvalidQueryError" /\ ~call'.sent /\ pc' = "idle")]_vars

\* the basic parameters of a client, written out
BasicParameters(c) ==
    IF c.auth.some
    THEN << <<"db", c.database>>, <<"u", c.auth.username>>, <<"p", c.auth.password>> >>
    ELSE << <<"db", c.database>> >>

\* C9: the basic parameters are [("db", database)] without credentials and
\* [("db", database), ("u", username), ("p", password)] with them, from the
\* owned and from the borrowed conversion alike; they follow the credentials
\* last attached with with_auth; the borrowed conversion leaves the client as
\* it is.
C9_BasicParameters ==
    [][/\ IntoOwnedCall => ret'.params = BasicParameters(client)
       /\ IntoBorrowedCall =>
            /\ ret'.params = BasicParameters(client)
            /\ client' = client
            /\ clientAlive'
       /\ \A auth \in Credentials :
            WithAuth(auth[1], auth[2]) =>
              /\ BasicParameters(client') =
                   << <<"db", client.database>>, <<"u", auth[1]>>, <<"p", auth[2]>> >>
              /\ client'.url = client.url]_vars

C9_Witness ==
    /\ ret.op = "into_ref"
    /\ clientAlive
    /\ client.auth.some
    /\ ret.params =
         << <<"db", <<"d", "2">>>>, <<"u", <<"u", "2">>>>, <<"p", <<"p", "2">>>> >>

RECURSIVE JoinedUpTo(_, _)
\* the first n statements, each after the first preceded by ';'
JoinedUpTo(strs, n) ==
    IF n = 1 THEN strs[1]
    ELSE JoinedUpTo(strs, n - 1) \o <<";">> \o strs[n]

\* C10: a Read query made by new(s1) and add(s2) .. add(sn) holds s1 .. sn in
\* that order and never an empty list, and build() succeeds on it with the
\* statements joined by ';' (one statement renders as itself).
C10_ReadJoin ==
    [][/\ \A s \in Statements : ReadNew(s) => q'.queries = <<s>>
       /\ \A s \in Statements : ReadAdd(s) => q'.queries = q.queries \o <<s>>
       /\ q'.kind = "Read" => Len(q'.queries) >= 1
       /\ (Build /\ q.kind = "Read") =>
            /\ ret'.kind = "Ok"
            /\ ret'.query = JoinedUpTo(q.queries, Len(q.queries))]_vars

C10_Witness ==
    /\ ret.op = "build"
    /\ ret.kind = "Ok"
    /\ q.kind = "Read"
    /\ q.queries = <<SELECT, DROP>>
    /\ ret.query = SELECT \o <<";">> \o DROP

\* C11: query() treats a response whose status is none of 200, 401 and 403
\* as a failure: it never returns the success value for it.
C11_OtherStatusFails ==
    (/\ Answered
     /\ call.op = "query"
     /\ call.response.status \notin {200, 401, 403})
      => ret.kind # "Ok"

\* the last call was json_query() and it went on to decode a body
JsonDecoded ==
    /\ Answered
    /\ call.op = "json_query"
    /\ call.response.status \notin {401, 403}
    /\ call.response.bodyOk

\* the documents the body of the last response is the text of
DocsOfBody == {d \in JsonDocs : BodyOf[d] = call.response.body}

\* d is a JSON object with a member of that key and that type
HasTyped(d, key, type) ==
    d.t = "obj" /\ HasMember(d, key) /\ Member(d, key).t = type

\* C12: after a response that is neither 401 nor 403, json_query() decodes
\* the body as an error envelope first: when that succeeds (as for every JSON
\* object with an error string field, also one that has results too) the call
\* fails with a Database error carrying exactly that string; only otherwise
\* the body is decoded as the result structure, which is returned on success
\* and gives a Deserialization error with the parser's message on failure.
C12_DecodeOrder ==
    JsonDecoded =>
      /\ \A d \in DocsOfBody :
           HasTyped(d, Key_error, "str") =>
             (ret.kind = "DatabaseError" /\ ret.error = Member(d, Key_error).v)
      /\ \A d \in DocsOfBody :
           (HasTyped(d, Key_results, "arr") /\ ~HasMember(d, Key_error)) =>
             /\ ret.kind = "Ok"
             /\ resultAlive
             /\ results = Member(d, Key_results).v
             /\ consumed = <<>>
      /\ IF DecodeDatabaseError(call.response.body).ok
         THEN /\ ret.kind = "DatabaseError"
              /\ ret.error = DecodeDatabaseError(call.response.body).error
         ELSE IF DecodeDatabaseQueryResult(call.response.body).ok
         THEN ret.kind = "Ok"
         ELSE /\ ret.kind = "DeserializationError"
              /\ ret.detail = DecodeDatabaseQueryResult(call.response.body).detail

C12_Witness ==
    /\ JsonDecoded
    /\ call.response.status = 200
    /\ \E d \in DocsOfBody :
         HasTyped(d, Key_error, "str") /\ HasTyped(d, Key_results, "arr")
    /\ ret.kind = "DatabaseError"
    /\ ret.error = <<"n", "o">>

====
